---- MODULE Spec2Model ----
(***************************************************************************)
(* The durable message log of the rover chat server (src/server.js): the   *)
(* JSONL event log, the in-memory Live Index (messages map), the create    *)
(* and delete handlers with their fire-and-forget appends, the fallback    *)
(* ownership scan and the bounded history reconstruction.                  *)
(*                                                                         *)
(* A message id n >= 1 stands for the n-th string newId() returned; 0 is a *)
(* well-formed id string that newId() never returned.  A log line is the   *)
(* JSON text of one object; it is modelled as [json |-> object], and a     *)
(* line without a json field is text JSON.parse throws on.                 *)
(***************************************************************************)
EXTENDS Integers, Sequences, FiniteSets, TLC

\* ---------------------------------------------------------------- bounds
MaxMsgs == 2        \* messages created in one behaviour
MaxDeletes == 2     \* delete_message requests in one behaviour
MaxClock == 2       \* largest value Date.now() returns
MaxClears == 1      \* /admin/clear requests in one behaviour
MaxFailures == 1    \* fs.appendFile calls that fail in one behaviour
HistMaxMsgs == 3    \* creates behind a log file found at start
HistMaxTs == 3      \* largest timestamp of those creates
HistMaxLen == 3     \* lines of such a log file, padding apart

\* ------------------------------------------------------ program constants
maxScan == 5000
scanFactor == 5
defaultLimit == 200
maxLimit == 1000
minLimit == 1

Sockets == {"s1", "s2"}
\* The name each socket's user types into the join form.
UserOf == [s \in Sockets |-> IF s = "s1" THEN "alice" ELSE "bob"]
Null == "null"
UnknownId == 0

VARIABLES
    clock,      \* the value Date.now() returned last
    nextId,     \* number of ids newId() has returned, plus one
    username,   \* socket.data.username per socket ("" before join)
    messages,   \* the Live Index: id -> {owner, type, url}
    log,        \* lines of data/messages.jsonl, in file order
    pending,    \* fs.appendFile calls issued and not yet completed
    failed,     \* fs.appendFile calls whose callback received an error
    nextSeq,    \* number of fs.appendFile calls issued, plus one
    lookups,    \* delete_message handlers suspended in lookupMessageOwner,
                \* each with the number of log lines there were when it began
    nextReq,    \* number of delete_message requests received, plus one
    lastAck,    \* the most recent ack(...) of a delete_message handler
    ackTrue,    \* per id: number of ack(true) calls
    deletedEvents, \* per id: number of io.emit("message_deleted", {id})
    broadcast,  \* payloads handed to io.emit("message", payload)
    hist,       \* the GET /messages request: waiting for readFile, or answered
    clears,     \* number of /admin/clear requests handled
    cleared     \* the response of the most recent /admin/clear request

vars == <<clock, nextId, username, messages, log, pending, failed, nextSeq,
          lookups, nextReq, lastAck, ackTrue, deletedEvents, broadcast,
          hist, clears, cleared>>

Ids == 1..MaxMsgs
IdInputs == Ids \cup {UnknownId}
NoAck == [id |-> UnknownId, me |-> "", ok |-> FALSE, none |-> TRUE]
NoRead == [stage |-> "idle"]
NoClear == [none |-> TRUE]

Max(a, b) == IF a >= b THEN a ELSE b
Min(a, b) == IF a <= b THEN a ELSE b

\* ------------------------------------------------------------ JSON lines
\* JSON.stringify(m) + "\n" on a plain object of strings, numbers and nulls:
\* one line that JSON.parse maps back to an object with the same fields.
Stringify(m) == [json |-> m]
Parses(line) == "json" \in DOMAIN line
Parse(line) == line.json

\* obj.id in a condition: the field exists (every id string is non-empty).
HasId(obj) == "id" \in DOMAIN obj
\* obj.username in a condition: the field exists and is not "".
HasUsername(obj) == "username" \in DOMAIN obj /\ obj.username # ""

\* The lines before the first one JSON.parse throws on.
RECURSIVE LinesBeforeCorruption(_)
LinesBeforeCorruption(file) ==
    IF file = <<>> \/ "json" \notin DOMAIN file[1].line THEN <<>>
    ELSE <<file[1].line>> \o LinesBeforeCorruption(Tail(file))

\* data.split(/\r?\n/).filter(Boolean): the non-empty lines, in file order.
Lines(file) == [i \in 1..Len(file) |-> file[i].line]

\* -------------------------------------------------- lookupMessageOwner
\* The loop of lookupMessageOwner from line i down to line 1.
RECURSIVE lookupFrom(_, _, _)
lookupFrom(lines, i, id) ==
    IF i < 1 THEN [owner |-> Null, deleted |-> FALSE]
    ELSE IF ~Parses(lines[i]) THEN lookupFrom(lines, i - 1, id)
    ELSE LET obj == Parse(lines[i]) IN
         IF obj.type = "delete" /\ HasId(obj) /\ obj.id = id
         THEN [deleted |-> TRUE]
         ELSE IF HasId(obj) /\ obj.id = id /\ HasUsername(obj)
         THEN [owner |-> obj.username, deleted |-> FALSE]
         ELSE lookupFrom(lines, i - 1, id)

\* The same scan from the first line of the file to the last.
lookupOldestFirst(file, id) ==
    lookupFrom([i \in 1..Len(file) |-> file[Len(file) + 1 - i].line],
               Len(file), id)

\* What lookupMessageOwner(id) resolves to when readFile returns `file`.
lookupMessageOwner(file, id) == lookupFrom(Lines(file), Len(file), id)

\* --------------------------------------------------- readRecentMessages
\* A scan of every line of the file.
WholeFile(lines, limit) == lines

\* The first lines of the file, as many as the scan reads, instead of the last.
FirstLines(lines, limit) ==
    SubSeq(lines, 1, Min(Len(lines), Max(limit * scanFactor, maxScan)))

\* lines.slice(start) with start = max(0, length - max(limit * 5, maxScan)).
ScanStart(n, limit) == Max(0, n - Max(limit * scanFactor, maxScan))
ScanSlice(lines, limit) ==
    SubSeq(lines, ScanStart(Len(lines), limit) + 1, Len(lines))

IsTombstone(line) ==
    Parses(line) /\ Parse(line).type = "delete" /\ HasId(Parse(line))
IsMessage(line) ==
    Parses(line) /\ ~IsTombstone(line) /\ HasId(Parse(line))

\* The tombstones of a loop that stops before the last line of the slice.
TombstonesBeforeLastLine(slice) ==
    {Parse(slice[i]).id :
        i \in {j \in 1..(Len(slice) - 1) : IsTombstone(slice[j])}}

Tombstones(slice) ==
    {Parse(slice[i]).id : i \in {j \in 1..Len(slice) : IsTombstone(slice[j])}}
AllMessages(slice) ==
    LET kept == SelectSeq(slice, IsMessage)
    IN  [i \in 1..Len(kept) |-> Parse(kept[i])]

\* (a.timestamp || 0) of the comparator.
TimeOf(m) == IF "timestamp" \in DOMAIN m THEN m.timestamp ELSE 0

\* Insert m into the sorted sequence s after every element that is not later.
RECURSIVE InsertSorted(_, _)
InsertSorted(s, m) ==
    IF s = <<>> THEN <<m>>
    ELSE IF TimeOf(s[Len(s)]) - TimeOf(m) <= 0 THEN Append(s, m)
    ELSE Append(InsertSorted(SubSeq(s, 1, Len(s) - 1), m), s[Len(s)])

\* The messages left in the order in which the log holds them.
Unsorted(s) == s

\* filtered.sort((a,b) => (a.timestamp||0)-(b.timestamp||0)): stable.
RECURSIVE SortPrefix(_, _)
SortPrefix(s, n) ==
    IF n = 0 THEN <<>> ELSE InsertSorted(SortPrefix(s, n - 1), s[n])
SortByTimestamp(s) == SortPrefix(s, Len(s))

\* The first `limit` entries instead of the last.
FirstN(s, limit) == SubSeq(s, 1, Min(Len(s), limit))

\* filtered.slice(Math.max(0, filtered.length - limit))
LastN(s, limit) == SubSeq(s, Max(0, Len(s) - limit) + 1, Len(s))

\* What readRecentMessages(limit) resolves to when readFile returns `file`.
readRecentMessages(file, limit) ==
    LET slice == ScanSlice(Lines(file), limit)
        tombstones == Tombstones(slice)
        all == AllMessages(slice)
        filtered == SelectSeq(all, LAMBDA m : m.id \notin tombstones)
    IN  LastN(SortByTimestamp(filtered), limit)

\* ------------------------------------------------------- GET /messages
\* req.query.limit: missing, a text without leading digits ("abc"), the
\* decimal text of an integer, or that of an integer followed by other
\* characters ("2abc").
QueryInts == {-1, 0, 1, 2, 2000}
Queries == {[kind |-> "absent"], [kind |-> "text"]}
             \cup {[kind |-> "int", n |-> k] : k \in QueryInts}
             \cup {[kind |-> "prefix", n |-> k] : k \in {2}}
\* parseInt(req.query.limit, 10) || 200: parseInt reads the leading integer
\* and gives NaN when there is none; NaN and 0 are falsy.
LimitOrDefault(q) ==
    IF q.kind \in {"int", "prefix"} /\ q.n # 0 THEN q.n ELSE defaultLimit
\* Math.max(1, Math.min(1000, parseInt(...) || 200))
ClampLimit(q) == Max(minLimit, Min(maxLimit, LimitOrDefault(q)))

\* ------------------------------------------------------------- inputs
\* What a client sends with "message".  Every text is shorter than the
\* 1000 (text) and 300 (caption) character cuts, so slice() keeps it whole.
MsgInputs ==
    { [kind |-> "string", text |-> "hi"],
      [kind |-> "string", text |-> " hi "],
      [kind |-> "string", text |-> "  "],
      [kind |-> "object", type |-> "image", url |-> "/uploads/a.png",
       mime |-> "image/png", text |-> "pic"],
      [kind |-> "object", type |-> "image", url |-> "http://x/a.png",
       mime |-> "image/png", text |-> ""],
      [kind |-> "object", type |-> "file", url |-> "/uploads/a.bin",
       mime |-> "text/plain", text |-> ""],
      [kind |-> "number"] }

\* String.prototype.trim on the texts and urls clients send here.
Trim(str) ==
    CASE str = " hi " -> "hi"
      [] str = "  " -> ""
      [] OTHER -> str
\* url.startsWith("/uploads/")
IsUpload(url) == url \in {"/uploads/a.png", "/uploads/a.bin"}

\* The socket's name with "Anonymous" for a socket that has none, whatever the
\* caller's fallback.
NameOrAnonymous(s, fallback) ==
    IF username[s] # "" THEN username[s] ELSE "Anonymous"

\* socket.data.username || users.get(socket.id) || fallback
NameOr(s, fallback) == IF username[s] # "" THEN username[s] ELSE fallback

\* Whether the "message" handler gets past its early returns on `data`.
AcceptsMessage(data) ==
    IF data.kind = "string" THEN Trim(data.text) # ""
    ELSE IF data.kind = "object" THEN
        /\ data.type \in {"image", "video", "audio"}
        /\ IsUpload(Trim(data.url))
    ELSE FALSE

\* The payload the "message" handler builds from accepted `data` for the
\* sender `name`, with `id` from newId() and `now` from Date.now().
Payload(id, name, data, now) ==
    IF data.kind = "string"
    THEN [id |-> id, type |-> "text", username |-> name,
          text |-> Trim(data.text), timestamp |-> now, avatarUrl |-> Null]
    ELSE [id |-> id, type |-> data.type, username |-> name,
          url |-> Trim(data.url), mime |-> data.mime, text |-> data.text,
          timestamp |-> now, avatarUrl |-> Null]

MessagePayload(s, data, now) ==
    Payload(nextId, NameOr(s, "Anonymous"), data, now)

\* An entry that names the payload's type as the owner.
IndexEntryByType(m) ==
    [owner |-> m.type, type |-> m.type,
     url |-> IF "url" \in DOMAIN m /\ m.url # "" THEN m.url ELSE Null]

\* The Live Index entry rememberMessage stores for payload m.
IndexEntry(m) ==
    [owner |-> m.username, type |-> m.type,
     url |-> IF "url" \in DOMAIN m /\ m.url # "" THEN m.url ELSE Null]

\* fs.appendFile(messagesFile, JSON.stringify(obj) + "\n", () => {}): the call
\* is queued; seq is its position in issue order.
AppendCall(obj) == [seq |-> nextSeq, line |-> Stringify(obj)]

\* The tombstone the delete handler persists.
Tombstone(id, me, now) ==
    [type |-> "delete", id |-> id, timestamp |-> now, by |-> me]

\* A write at the start of the file instead of its end.
PrependLine(file, call) == <<call>> \o file

\* The file after one more line has been written at its end.
AppendLine(file, call) == Append(file, call)

\* A map from which nothing is removed.
MapKeep(map, id) == map

\* messages.delete(id)
MapDelete(map, id) == [k \in (DOMAIN map) \ {id} |-> map[k]]
\* messages.set(id, entry)
MapSet(map, id, entry) ==
    [k \in (DOMAIN map) \cup {id} |-> IF k = id THEN entry ELSE map[k]]

\* --------------------------------------------------------------- state
Init ==
    /\ clock = 1
    /\ nextId = 1
    /\ username = [s \in Sockets |-> ""]
    /\ messages = <<>>
    /\ log = <<>>
    /\ pending = {}
    /\ failed = {}
    /\ nextSeq = 1
    /\ lookups = {}
    /\ nextReq = 1
    /\ lastAck = NoAck
    /\ ackTrue = [i \in IdInputs |-> 0]
    /\ deletedEvents = [i \in IdInputs |-> 0]
    /\ broadcast = {}
    /\ hist = NoRead
    /\ clears = 0
    /\ cleared = NoClear

\* Date.now(): a value not before the one returned last.
Now == clock..MaxClock

\* socket.on("join") with a non-empty name of at most 30 characters; a client
\* emits "join" once per connection (src/public/client.js:68).
Join(s) ==
    /\ username[s] = ""
    /\ username' = [username EXCEPT ![s] = Trim(UserOf[s])]
    /\ UNCHANGED <<clock, nextId, messages, log, pending, failed, nextSeq,
                   lookups, nextReq, lastAck, ackTrue, deletedEvents,
                   broadcast, hist, clears, cleared>>

\* socket.on("message"): build the payload, rememberMessage, io.emit.
Message(s, data, now) ==
    /\ nextId <= MaxMsgs
    /\ AcceptsMessage(data)
    /\ clock' = now
    /\ LET payload == MessagePayload(s, data, now) IN
        /\ messages' = MapSet(messages, payload.id, IndexEntry(payload))
        /\ pending' = pending \cup {AppendCall(payload)}
        /\ broadcast' = broadcast \cup {payload}
    /\ nextSeq' = nextSeq + 1
    /\ nextId' = nextId + 1
    /\ UNCHANGED <<username, log, failed, lookups, nextReq, lastAck,
                   ackTrue, deletedEvents, hist, clears, cleared>>

\* An fs.appendFile call completes: its line is at the end of the file.
AppendLands(call) ==
    /\ call \in pending
    /\ log' = AppendLine(log, call)
    /\ pending' = pending \ {call}
    /\ UNCHANGED <<clock, nextId, username, messages, failed, nextSeq,
                   lookups, nextReq, lastAck, ackTrue, deletedEvents,
                   broadcast, hist, clears, cleared>>

\* An fs.appendFile call fails (disk full, permissions): the callback
\* () => {} receives the error and drops it.
AppendFails(call) ==
    /\ Cardinality(failed) < MaxFailures
    /\ call \in pending
    /\ pending' = pending \ {call}
    /\ failed' = failed \cup {call}
    /\ UNCHANGED <<clock, nextId, username, messages, log, nextSeq,
                   lookups, nextReq, lastAck, ackTrue, deletedEvents,
                   broadcast, hist, clears, cleared>>

\* The owner test without its `owner !== me` half.
IsOwnerAnyRequester(owner, me) == owner # Null /\ owner # ""

\* `!owner || owner !== me` is false: the requester is the owner.
IsOwner(owner, me) == owner # Null /\ owner # "" /\ owner = me

\* Whether some line of the file is a record with this id.
HasRecord(file, id) ==
    \E i \in 1..Len(file) :
        Parses(file[i].line) /\ HasId(Parse(file[i].line))
            /\ Parse(file[i].line).id = id

\* ack(ok) of the delete_message request req, and what goes with ack(true):
\* messages.delete(id), the tombstone append, io.emit("message_deleted").
AckFalse(req, id, me) ==
    /\ lastAck' = [id |-> id, me |-> me, ok |-> FALSE]
    /\ UNCHANGED <<clock, messages, pending, nextSeq, ackTrue, deletedEvents>>

Authorized(req, id, me) ==
    /\ messages' = MapDelete(messages, id)
    /\ \E now \in Now :
        /\ clock' = now
        /\ pending' = pending \cup {AppendCall(Tombstone(id, me, now))}
    /\ nextSeq' = nextSeq + 1
    /\ deletedEvents' = [deletedEvents EXCEPT ![id] = @ + 1]
    /\ ackTrue' = [ackTrue EXCEPT ![id] = @ + 1]
    /\ lastAck' = [id |-> id, me |-> me, ok |-> TRUE]

\* socket.on("delete_message") up to its first await (or to its end when the
\* Live Index knows the owner).
DeleteMessage(s, id) ==
    /\ nextReq <= MaxDeletes
    /\ id < nextId \/ HasRecord(log, id)
    /\ nextReq' = nextReq + 1
    /\ LET me == NameOr(s, "") IN
        IF me = "" THEN
            AckFalse(nextReq, id, me) /\ UNCHANGED lookups
        ELSE IF id \in DOMAIN messages /\ messages[id].owner # "" THEN
            /\ IF ~IsOwner(messages[id].owner, me)
               THEN AckFalse(nextReq, id, me)
               ELSE Authorized(nextReq, id, me)
            /\ UNCHANGED lookups
        ELSE
            /\ lookups' = lookups \cup
                 {[req |-> nextReq, id |-> id, me |-> me, stage |-> "reading",
                   began |-> Len(log)]}
            /\ UNCHANGED <<clock, messages, pending, nextSeq, ackTrue,
                           deletedEvents, lastAck>>
    /\ UNCHANGED <<nextId, username, log, failed, broadcast, hist, clears, cleared>>

\* fs.promises.readFile inside lookupMessageOwner returns the file as it is
\* now; the scan's result is what the await will deliver.
LookupReads(d) ==
    /\ d \in lookups
    /\ d.stage = "reading"
    /\ lookups' = (lookups \ {d}) \cup
         {[req |-> d.req, id |-> d.id, me |-> d.me, stage |-> "resolved",
           began |-> d.began, info |-> lookupMessageOwner(log, d.id)]}
    /\ UNCHANGED <<clock, nextId, username, messages, log, pending, failed,
                   nextSeq, nextReq, lastAck, ackTrue, deletedEvents,
                   broadcast, hist, clears, cleared>>

\* socket.on("delete_message") after `await lookupMessageOwner(id)`.
DeleteResumes(d) ==
    /\ d \in lookups
    /\ d.stage = "resolved"
    /\ lookups' = lookups \ {d}
    /\ IF d.info.deleted THEN AckFalse(d.req, d.id, d.me)
       ELSE IF ~IsOwner(d.info.owner, d.me)
       THEN AckFalse(d.req, d.id, d.me)
       ELSE Authorized(d.req, d.id, d.me)
    /\ UNCHANGED <<nextId, username, log, failed, nextReq, broadcast,
                   hist, clears, cleared>>

\* GET /messages: the limit is clamped, then readRecentMessages is awaited.
HistoryRequest(q) ==
    /\ hist.stage # "reading"
    /\ hist' = [stage |-> "reading", limit |-> ClampLimit(q), query |-> q]
    /\ UNCHANGED <<clock, nextId, username, messages, log, pending, failed,
                   nextSeq, lookups, nextReq, lastAck, ackTrue, deletedEvents,
                   broadcast, clears, cleared>>

\* readFile returns the file as it is now; res.json(items) answers.
HistoryResponds ==
    /\ hist.stage = "reading"
    /\ hist' = [stage |-> "done", limit |-> hist.limit,
                items |-> readRecentMessages(log, hist.limit)]
    /\ UNCHANGED <<clock, nextId, username, messages, log, pending, failed,
                   nextSeq, lookups, nextReq, lastAck, ackTrue, deletedEvents,
                   broadcast, clears, cleared>>

\* POST /admin/clear; writeFileSync either truncates the file or throws, and
\* the response is {ok: true} or status 500.  seq tells the fs.appendFile
\* calls issued before the request (seq below it) from the later ones.
AdminClear(ok) ==
    /\ clears < MaxClears
    /\ clears' = clears + 1
    /\ messages' = <<>>
    /\ log' = IF ok THEN <<>> ELSE log
    /\ cleared' = [ok |-> ok, seq |-> nextSeq]
    /\ UNCHANGED <<clock, nextId, username, pending, failed, nextSeq, lookups,
                   nextReq, lastAck, ackTrue, deletedEvents, broadcast, hist>>

\* Normal operation: the socket handlers and the completion of their I/O.
Next ==
    \/ \E s \in Sockets : Join(s)
    \/ \E s \in Sockets, data \in MsgInputs, now \in Now : Message(s, data, now)
    \/ \E call \in pending : AppendLands(call)
    \/ \E call \in pending : AppendFails(call)
    \/ \E s \in Sockets, id \in IdInputs : DeleteMessage(s, id)
    \/ \E d \in lookups : LookupReads(d)
    \/ \E d \in lookups : DeleteResumes(d)

Spec == Init /\ [][Next]_vars

\* Every fs.appendFile call completes, with or without an error, every
\* readFile of a fallback scan returns and every awaiting handler resumes; no
\* client is bound to send anything.
Completion == \E call \in pending : AppendLands(call) \/ AppendFails(call)
Fairness ==
    /\ WF_vars(Completion)
    /\ WF_vars(\E d \in lookups : LookupReads(d))
    /\ WF_vars(\E d \in lookups : DeleteResumes(d))
SpecFair == Spec /\ Fairness

\* Normal operation together with the administrative reset; the clients send
\* text messages only.
TextInputs == {data \in MsgInputs : data.kind = "string"}
NextAdmin ==
    \/ \E s \in Sockets : Join(s)
    \/ \E s \in Sockets, data \in TextInputs, now \in Now : Message(s, data, now)
    \/ \E call \in pending : AppendLands(call)
    \/ \E call \in pending : AppendFails(call)
    \/ \E s \in Sockets, id \in IdInputs : DeleteMessage(s, id)
    \/ \E d \in lookups : LookupReads(d)
    \/ \E d \in lookups : DeleteResumes(d)
    \/ \E ok \in BOOLEAN : AdminClear(ok)

SpecAdmin == Init /\ [][NextAdmin]_vars

\* ------------------------------------------------- history over old logs
\* A server process started on the log file earlier runs left behind: the
\* in-memory state is that of Init, the file holds records of HistMaxMsgs
\* creates and of deletes by their owners, in any landing order.
HistOwner(i) == IF i % 2 = 1 THEN "alice" ELSE "bob"
HistInput(i) ==
    IF i % 2 = 1 THEN [kind |-> "string", text |-> " hi "]
    ELSE [kind |-> "object", type |-> "image", url |-> "/uploads/a.png",
          mime |-> "image/png", text |-> "pic"]
\* Date.now() at each create: never decreasing from one create to the next.
HistTimes ==
    {ts \in [1..HistMaxMsgs -> 1..HistMaxTs] :
        \A i, j \in 1..HistMaxMsgs : i < j => ts[i] <= ts[j]}
HistCreate(i, t) ==
    [seq |-> 2 * i - 1,
     line |-> Stringify(Payload(i, HistOwner(i), HistInput(i), t))]
HistDelete(i, t) ==
    [seq |-> 2 * i, line |-> Stringify(Tombstone(i, HistOwner(i), t))]
HistRecords(ts) ==
    {HistCreate(i, ts[i]) : i \in 1..HistMaxMsgs}
        \cup {HistDelete(i, ts[i]) : i \in 1..HistMaxMsgs}
\* The sequences of at most HistMaxLen distinct records.
HistLogs(ts) ==
    UNION {{f \in [1..k -> HistRecords(ts)] :
              \A i, j \in 1..k : i < j => f[i] # f[j]} : k \in 0..HistMaxLen}

\* Padding: further messages, each created and then deleted by its owner (the
\* last of them possibly not deleted yet), enough of them to fill the scanned
\* suffix (or all but a few of its lines).
PadPairs == maxScan \div 2
PadLines(pairs) ==
    [i \in 1..(2 * pairs) |->
        LET k == (i + 1) \div 2 IN
        IF i % 2 = 1 THEN HistCreate(HistMaxMsgs + k, HistMaxTs + k)
        ELSE HistDelete(HistMaxMsgs + k, HistMaxTs + k)]
\* The logs that are padded: their creates have the timestamps 1, 2, 3, ...
PaddedTimes == [i \in 1..HistMaxMsgs |-> i]

InitHistory ==
    /\ clock = 1
    /\ nextId = 1
    /\ username = [s \in Sockets |-> ""]
    /\ messages = <<>>
    /\ \/ \E ts \in HistTimes : log \in HistLogs(ts)
       \/ \E small \in HistLogs(PaddedTimes), pairs \in {PadPairs - 1, PadPairs},
             undeleted \in {0, 1} :
            /\ Len(small) <= 2
            /\ log = small \o SubSeq(PadLines(pairs), 1, 2 * pairs - undeleted)
    /\ pending = {}
    /\ failed = {}
    /\ nextSeq = 1
    /\ lookups = {}
    /\ nextReq = 1
    /\ lastAck = NoAck
    /\ ackTrue = [i \in IdInputs |-> 0]
    /\ deletedEvents = [i \in IdInputs |-> 0]
    /\ broadcast = {}
    /\ hist = NoRead
    /\ clears = 0
    /\ cleared = NoClear

NextHistory ==
    \/ \E q \in Queries : HistoryRequest(q)
    \/ HistoryResponds

SpecHistory == InitHistory /\ [][NextHistory]_vars

\* ------------------------------------------- a restart on a damaged log
\* A server process started on a short log file that earlier runs left behind
\* and that may hold a line JSON.parse throws on and a second tombstone of
\* message 1.  The clients join and send delete_message and GET /messages.
CorruptLine == [seq |-> 0, line |-> [text |-> "{\"id\":"]]
SecondDelete ==
    [seq |-> 2,
     line |-> Stringify(Tombstone(1, HistOwner(1), PaddedTimes[1] + 1))]
RecoveredRecords ==
    {HistCreate(1, PaddedTimes[1]), HistDelete(1, PaddedTimes[1]),
     SecondDelete, HistCreate(2, PaddedTimes[2]), CorruptLine}
RecoveredLogs ==
    UNION {{f \in [1..k -> RecoveredRecords] :
              \A i, j \in 1..k : i < j => f[i] # f[j]} : k \in 0..HistMaxLen}
RecoveredIds == {1, 2, UnknownId}

InitRecovered ==
    /\ clock = 1
    /\ nextId = 1
    /\ username = [s \in Sockets |-> ""]
    /\ messages = <<>>
    /\ log \in RecoveredLogs
    /\ pending = {}
    /\ failed = {}
    /\ nextSeq = 1
    /\ lookups = {}
    /\ nextReq = 1
    /\ lastAck = NoAck
    /\ ackTrue = [i \in RecoveredIds |-> 0]
    /\ deletedEvents = [i \in RecoveredIds |-> 0]
    /\ broadcast = {}
    /\ hist = NoRead
    /\ clears = 0
    /\ cleared = NoClear

NextRecovered ==
    \/ \E s \in Sockets : Join(s)
    \/ \E call \in pending : AppendLands(call)
    \/ \E call \in pending : AppendFails(call)
    \/ \E s \in Sockets, id \in RecoveredIds : DeleteMessage(s, id)
    \/ \E d \in lookups : LookupReads(d)
    \/ \E d \in lookups : DeleteResumes(d)
    \/ \E q \in Queries : HistoryRequest(q)
    \/ HistoryResponds

SpecRecovered == InitRecovered /\ [][NextRecovered]_vars

\* ------------------------------------------------------------ helpers
Range(seq) == {seq[i] : i \in 1..Len(seq)}
ItemIds(items) == {items[i].id : i \in 1..Len(items)}
IsPrefix(a, b) == Len(a) <= Len(b) /\ SubSeq(b, 1, Len(a)) = a
\* The limits GET /messages can pass to readRecentMessages.
Limits == {ClampLimit(q) : q \in Queries}
\* What a history read returns when its readFile returns the file as it is now.
Recent(limit) == readRecentMessages(log, limit)
\* The payload of the accepted create that was given `id`.
Created(id) == \E m \in broadcast : m.id = id
PayloadOf(id) == CHOOSE m \in broadcast : m.id = id
\* Number of delete_message requests that have been acknowledged.
AckCount == nextReq - 1 - Cardinality(lookups)
HasAck == "none" \notin DOMAIN lastAck
\* Number of ack(true) for lastAck.id before lastAck itself.
PriorSuccesses ==
    ackTrue[lastAck.id] - (IF lastAck.ok THEN 1 ELSE 0)

\* ------------------------------------------------------------- claims
\* C1 (idempotent deletion): for every message id, at most one delete_message
\* request is acknowledged true and at most one message_deleted event is
\* broadcast, whatever the interleaving of requests and tombstone appends.
C1_IdempotentDeletion ==
    \A id \in Ids : ackTrue[id] <= 1 /\ deletedEvents[id] <= 1

\* C2 (ownership invariant): a delete_message(id) request is acknowledged true
\* if and only if the requester's username is the username of the id's
\* original Create and no delete of that id has succeeded before.
C2_OwnershipInvariant ==
    HasAck =>
        (lastAck.ok <=>
            /\ Created(lastAck.id)
            /\ lastAck.me = PayloadOf(lastAck.id).username
            /\ PriorSuccesses = 0)

\* C3 (tombstone permanence): once delete_message(X) has been acknowledged
\* true, no history read whose file read happens afterwards returns X, for
\* any limit.
C3_TombstonePermanence ==
    \A id \in Ids : ackTrue[id] > 0 =>
        \A limit \in Limits : id \notin ItemIds(Recent(limit))

\* C4 (round trip): after a create has been accepted, a history read with
\* limit >= 1 that starts afterwards, with no delete of the message and fewer
\* than limit newer messages, returns the message with identical fields.
NewerThan(m) == {n \in broadcast : n.id > m.id}
C4_RoundTrip ==
    \A m \in broadcast : ackTrue[m.id] = 0 =>
        \A limit \in Limits :
            Cardinality(NewerThan(m)) < limit => m \in Range(Recent(limit))

\* C5 (durability precedes visibility): when the append of a create or of a
\* delete has failed, the Live Index is without that event's update: no entry
\* for the failed create, the entry still there for the failed delete.
C5_DurabilityPrecedesVisibility ==
    \A call \in failed :
        LET obj == Parse(call.line) IN
        IF obj.type = "delete"
        THEN obj.id \in DOMAIN messages
        ELSE obj.id \notin DOMAIN messages

\* C6 (append ordering): the records are in the log in the order in which
\* their appends were issued, and so their timestamps never decrease along
\* the log.
C6_AppendOrdering ==
    \A i, j \in 1..Len(log) : i < j =>
        /\ log[i].seq < log[j].seq
        /\ Parse(log[i].line).timestamp <= Parse(log[j].line).timestamp

\* C7 (non-owner delete changes nothing): a delete_message for a created
\* message by a requester whose name is not its owner's is acknowledged false
\* and appends no tombstone, leaves the Live Index as it was, broadcasts no
\* message_deleted and leaves every history read's result as it was.
NonOwnerAck ==
    /\ AckCount' = AckCount + 1
    /\ \E m \in broadcast : m.id = lastAck'.id /\ m.username # lastAck'.me
NothingChanged ==
    /\ ~lastAck'.ok
    /\ pending' = pending
    /\ log' = log
    /\ messages' = messages
    /\ deletedEvents' = deletedEvents
    /\ \A limit \in Limits :
        readRecentMessages(log', limit) = readRecentMessages(log, limit)
C7_NonOwnerDeleteChangesNothing == [][NonOwnerAck => NothingChanged]_vars

\* A joined non-owner has been refused, and the message is still indexed and
\* still returned by a history read.
C7_Witness ==
    /\ HasAck
    /\ ~lastAck.ok
    /\ lastAck.me # ""
    /\ Created(lastAck.id)
    /\ PayloadOf(lastAck.id).username # lastAck.me
    /\ lastAck.id \in DOMAIN messages
    /\ lastAck.id \in ItemIds(Recent(defaultLimit))

\* C10 (append-only log): in normal operation every step leaves the log's
\* earlier content in place as a prefix of its later content.
C10_AppendOnly == [][IsPrefix(log, log')]_vars

\* The log holds a create followed by further records, a tombstone among them.
C10_Witness ==
    /\ Len(log) >= 2
    /\ \E i \in 1..Len(log) : IsTombstone(log[i].line)
    /\ \E i \in 1..Len(log) : IsMessage(log[i].line)

\* C8 (chronological window): when the creates in the log have strictly
\* increasing timestamps, readRecentMessages(N) returns exactly the visible
\* (non-tombstoned) ones with the N largest timestamps, all of them when there
\* are fewer than N, in ascending timestamp order.
CreateLines == {i \in 1..Len(log) : IsMessage(log[i].line)}
LogTombstoned ==
    {Parse(log[i].line).id : i \in {j \in 1..Len(log) : IsTombstone(log[j].line)}}
VisibleCreates ==
    LET tombstoned == LogTombstoned
        visible == {j \in CreateLines : Parse(log[j].line).id \notin tombstoned}
    IN  {Parse(log[i].line) : i \in visible}
\* Date.now() never decreases from one create to the next, so the creates'
\* timestamps increase strictly exactly when no two of them are equal.
StrictlyIncreasingCreates ==
    Cardinality({Parse(log[i].line).timestamp : i \in CreateLines})
        = Cardinality(CreateLines)
Latest(S, n) ==
    {m \in S : Cardinality({o \in S : o.timestamp > m.timestamp}) < n}
RECURSIVE Ascending(_)
Ascending(S) ==
    IF S = {} THEN <<>>
    ELSE LET first == CHOOSE m \in S : \A o \in S : m.timestamp <= o.timestamp
         IN  <<first>> \o Ascending(S \ {first})
ExpectedWindow(limit) ==
    LET visible == VisibleCreates IN Ascending(Latest(visible, limit))
\* The whole log lies inside the suffix readRecentMessages(limit) scans.
LogFitsScan(limit) == Len(log) <= Max(limit * scanFactor, maxScan)

C8_ChronologicalWindow ==
    (hist.stage = "done" /\ StrictlyIncreasingCreates)
        => hist.items = ExpectedWindow(hist.limit)

\* C8 as amended: the same, for a log of at most max(5 * N, 5000) lines.
C8_ChronologicalWindowOfScannedLog ==
    (hist.stage = "done" /\ StrictlyIncreasingCreates
        /\ LogFitsScan(hist.limit))
        => hist.items = ExpectedWindow(hist.limit)

\* A read with limit 2 has answered on a log of three visible creates with
\* increasing timestamps that the log holds out of timestamp order.
C8_Witness ==
    /\ hist.stage = "done"
    /\ hist.limit = 2
    /\ StrictlyIncreasingCreates
    /\ LogFitsScan(hist.limit)
    /\ Cardinality(VisibleCreates) = 3
    /\ Len(hist.items) = 2
    /\ Parse(log[1].line).timestamp > Parse(log[2].line).timestamp

\* C9 (defensive sort): the sequence readRecentMessages returns ascends by
\* timestamp, whatever the order of the Create records in the log.
C9_DefensiveSort ==
    hist.stage = "done" =>
        \A i, j \in 1..Len(hist.items) :
            i < j => hist.items[i].timestamp <= hist.items[j].timestamp

\* A read has answered with two messages that the log holds later-first.
C9_Witness ==
    /\ hist.stage = "done"
    /\ Len(hist.items) >= 2
    /\ \E i, j \in 1..Len(log) :
        /\ i < j
        /\ IsMessage(log[i].line) /\ IsMessage(log[j].line)
        /\ Parse(log[i].line).timestamp > Parse(log[j].line).timestamp
        /\ {Parse(log[i].line), Parse(log[j].line)} \subseteq Range(hist.items)

\* C11 (atomic administrative reset): a /admin/clear that reports ok leaves the
\* log and the Live Index empty, and afterwards the log holds no record whose
\* append was issued before the reset; one that reports failure leaves the log
\* and the Live Index as they were.
ResetStep == clears' = clears + 1
ResetEffect ==
    IF cleared'.ok
    THEN log' = <<>> /\ messages' = <<>>
    ELSE log' = log /\ messages' = messages
NoEarlierRecord ==
    ("ok" \in DOMAIN cleared /\ cleared.ok) =>
        \A i \in 1..Len(log) : log[i].seq >= cleared.seq
C11_AtomicAdminReset ==
    [][(ResetStep => ResetEffect) /\ NoEarlierRecord']_vars

\* C12 (history limit clamp): the limit GET /messages passes on is
\* min(1000, max(1, limit)) for every integer limit supplied, and 200 when the
\* limit is absent or not a number.
ClaimedLimit(q) ==
    IF q.kind = "int" THEN Min(maxLimit, Max(minLimit, q.n)) ELSE defaultLimit
C12_HistoryLimitClamp ==
    hist.stage = "reading" => hist.limit = ClaimedLimit(hist.query)

\* C13 (fallback resolution): lookupMessageOwner(id) returns deleted when the
\* most recent log record with that id is a Delete, the Create's username as
\* owner when it is a Create, and owner null / not deleted when no log record
\* has that id.
RecordsOf(file, id) ==
    {i \in 1..Len(file) :
        Parses(file[i].line) /\ HasId(Parse(file[i].line))
            /\ Parse(file[i].line).id = id}
MostRecent(file, id) ==
    Parse(file[CHOOSE i \in RecordsOf(file, id) :
                   \A j \in RecordsOf(file, id) : j <= i].line)
ClaimedResolution(file, id) ==
    IF RecordsOf(file, id) = {} THEN [owner |-> Null, deleted |-> FALSE]
    ELSE IF MostRecent(file, id).type = "delete" THEN [deleted |-> TRUE]
    ELSE [owner |-> MostRecent(file, id).username, deleted |-> FALSE]
C13_FallbackResolution ==
    [][\A d \in lookups' \ lookups :
          (d.stage = "resolved" /\ d.id \notin DOMAIN messages)
              => d.info = ClaimedResolution(log, d.id)]_vars

\* A fallback scan has resolved to deleted on a log that holds the Create of
\* the id and, after it, a Delete.
C13_Witness ==
    \E d \in lookups :
        /\ d.stage = "resolved"
        /\ d.info.deleted
        /\ \E i, j \in RecordsOf(log, d.id) :
              i < j /\ IsMessage(log[i].line) /\ IsTombstone(log[j].line)

\* C14 (effects of an authorized delete): every delete_message(id) that is
\* acknowledged true removes id from the Live Index and broadcasts
\* message_deleted for id, and a Delete record with this id and by = requester
\* is in the log eventually.
Names == {UserOf[s] : s \in Sockets} \cup {"Anonymous"}
AckedTrue(id, me) == HasAck /\ lastAck.ok /\ lastAck.id = id /\ lastAck.me = me
TombstoneInLog(id, me) ==
    \E i \in 1..Len(log) :
        /\ IsTombstone(log[i].line)
        /\ Parse(log[i].line).id = id
        /\ Parse(log[i].line).by = me
AckTrueStep(id) == ackTrue'[id] = ackTrue[id] + 1
C14_AuthorizedDeleteEffects ==
    /\ [][\A id \in Ids : AckTrueStep(id) =>
            /\ id \notin DOMAIN messages'
            /\ deletedEvents'[id] = deletedEvents[id] + 1]_vars
    /\ \A id \in Ids, me \in Names :
            AckedTrue(id, me) ~> TombstoneInLog(id, me)

\* C15 (delete of an unknown or already-deleted id): a delete_message that is
\* sent when the id has no Create record in the log and no Live Index entry,
\* or when the most recent log record of the id is a Delete, is acknowledged
\* false, appends nothing, leaves the Live Index unchanged and broadcasts
\* nothing.
AckStep == AckCount' = AckCount + 1
Resumed == lookups \ lookups'
\* The log and the Live Index as they were when the acknowledged handler began.
LogAtRequest ==
    IF Resumed = {} THEN log
    ELSE SubSeq(log, 1, (CHOOSE d \in Resumed : TRUE).began)
NoEntryAtRequest == Resumed # {} \/ lastAck'.id \notin DOMAIN messages
UnknownOrDeleted(file, id) ==
    \/ /\ \A i \in RecordsOf(file, id) : ~IsMessage(file[i].line)
       /\ NoEntryAtRequest
    \/ /\ RecordsOf(file, id) # {}
       /\ MostRecent(file, id).type = "delete"
Refused ==
    /\ ~lastAck'.ok
    /\ pending' = pending
    /\ log' = log
    /\ messages' = messages
    /\ deletedEvents' = deletedEvents
C15_UnknownOrDeletedRefused ==
    [][(AckStep /\ UnknownOrDeleted(LogAtRequest, lastAck'.id)) => Refused]_vars

\* C16 (the Live Index is disposable): once every issued append has landed, a
\* delete_message(id) that the handler answers from the Live Index gets the
\* acknowledgment, and appends the tombstone or nothing, exactly as the handler
\* would with an emptied Live Index, from the log alone.
AllLanded == pending = {} /\ failed = {}
\* The acknowledgment of the handler when messages.get(id) finds nothing.
AckFromLog(file, id, me) ==
    /\ me # ""
    /\ ~lookupMessageOwner(file, id).deleted
    /\ IsOwner(lookupMessageOwner(file, id).owner, me)
AppendedBy(id, me) ==
    {call \in pending' \ pending :
        /\ IsTombstone(call.line)
        /\ Parse(call.line).id = id
        /\ Parse(call.line).by = me}
C16_LiveIndexDisposable ==
    [][(AckStep /\ Resumed = {} /\ AllLanded) =>
          /\ lastAck'.ok = AckFromLog(log, lastAck'.id, lastAck'.me)
          /\ pending' \ pending = AppendedBy(lastAck'.id, lastAck'.me)
          /\ Cardinality(pending') = IF lastAck'.ok THEN 1 ELSE 0
          /\ log' = log]_vars

\* With every create in the log and nothing else pending, the owner's delete
\* of an indexed message has been acknowledged true from the Live Index.
C16_Witness ==
    /\ HasAck
    /\ lastAck.ok
    /\ failed = {}
    /\ ackTrue[lastAck.id] = 1
    /\ Cardinality(pending) = 1
    /\ \A call \in pending : IsTombstone(call.line)
    /\ \E m \in broadcast : Stringify(m) \in {log[i].line : i \in 1..Len(log)}
    /\ Cardinality(broadcast) = Len(log)

\* C17 (tombstones reference a prior Create): every Delete record in the log
\* is preceded in the log by a Create record with the same id, and its `by`
\* is that Create's username.
C17_TombstoneAfterCreate ==
    \A i \in 1..Len(log) : IsTombstone(log[i].line) =>
        \E j \in 1..(i - 1) :
            /\ IsMessage(log[j].line)
            /\ Parse(log[j].line).id = Parse(log[i].line).id
            /\ Parse(log[j].line).username = Parse(log[i].line).by

\* C18 (bounded suffix scan): readRecentMessages(limit) returns at most limit
\* messages, and what it returns depends only on the last max(5 * limit, 5000)
\* lines of the log: with the lines before them removed, or replaced by
\* Creates or by Deletes, the result is the same.
Window(limit) == Max(limit * scanFactor, maxScan)
Suffix(file, limit) ==
    SubSeq(file, Max(0, Len(file) - Window(limit)) + 1, Len(file))
\* Other contents for the n lines before the suffix: nothing at all, n times
\* the Create of message 1, n times its Delete.
OtherPrefixes(n) ==
    {<<>>,
     [i \in 1..n |-> HistCreate(1, PaddedTimes[1])],
     [i \in 1..n |-> HistDelete(1, PaddedTimes[1])]}
C18_BoundedSuffixScan ==
    hist.stage = "done" =>
        /\ Len(hist.items) <= hist.limit
        /\ LET suffix == Suffix(log, hist.limit) IN
           \A prefix \in OtherPrefixes(Len(log) - Len(suffix)) :
               readRecentMessages(prefix \o suffix, hist.limit) = hist.items

\* A read has answered on a log longer than the scanned suffix whose first
\* line, before the suffix, is the Create of a message that no line deletes,
\* and the answer is without it.
C18_Witness ==
    /\ hist.stage = "done"
    /\ Len(log) > Window(hist.limit)
    /\ IsMessage(log[1].line)
    /\ Parse(log[1].line) \in VisibleCreates
    /\ Parse(log[1].line).id \notin ItemIds(hist.items)

\* C19 (corruption tolerance): on a log that fits the scanned window,
\* readRecentMessages and lookupMessageOwner return what they return on the
\* same log with every unparseable line removed.
Clean(file) == SelectSeq(file, LAMBDA r : Parses(r.line))
HistoryAnswer == hist.stage = "reading" /\ hist'.stage = "done"
C19_CorruptionTolerance ==
    [][/\ (HistoryAnswer /\ LogFitsScan(hist.limit)) =>
            hist'.items = readRecentMessages(Clean(log), hist.limit)
       /\ \A d \in lookups' \ lookups :
            (d.stage = "resolved" /\ LogFitsScan(minLimit)) =>
                d.info = lookupMessageOwner(Clean(log), d.id)]_vars

\* On a log with an unparseable line before a Create, a history read has
\* returned that message and a fallback scan has resolved its owner.
C19_Witness ==
    \E i, j \in 1..Len(log) :
        /\ i < j
        /\ ~Parses(log[i].line)
        /\ IsMessage(log[j].line)
        /\ hist.stage = "done"
        /\ Parse(log[j].line) \in Range(hist.items)
        /\ \E d \in lookups :
            /\ d.stage = "resolved"
            /\ d.id = Parse(log[j].line).id
            /\ ~d.info.deleted
            /\ d.info.owner = Parse(log[j].line).username

\* C20 (duplicate tombstones are no-ops): for any log and any limit, with a
\* second Delete record appended for an id that already has a Delete record
\* in the scanned window, readRecentMessages(limit) and lookupMessageOwner for
\* every id return what they return without it.
DupIds == 1..(HistMaxMsgs + 1)
SecondDeleteOf(id) ==
    [seq |-> 0, line |-> Stringify(Tombstone(id, HistOwner(id), HistMaxTs))]
Lengthened(id) == AppendLine(log, SecondDeleteOf(id))
HasTombstoneInWindow(file, id, limit) ==
    \E i \in (Max(0, Len(file) - Window(limit)) + 1)..Len(file) :
        IsTombstone(file[i].line) /\ Parse(file[i].line).id = id
\* The fallback scan is compared on the logs without padding.
Unpadded == Len(log) <= HistMaxLen
SameResults(id) ==
    /\ readRecentMessages(Lengthened(id), hist.limit) = hist.items
    /\ Unpadded =>
         \A k \in 0..HistMaxMsgs :
            lookupMessageOwner(Lengthened(id), k) = lookupMessageOwner(log, k)
C20_DuplicateTombstoneNoOp ==
    hist.stage = "done" =>
        \A id \in DupIds :
            HasTombstoneInWindow(log, id, hist.limit) => SameResults(id)

\* C20 as amended: the same, when the lengthened log still fits the scanned
\* window and the most recent record of the id is a Delete.
DeleteIsMostRecent(id) ==
    RecordsOf(log, id) # {} /\ MostRecent(log, id).type = "delete"
C20_DuplicateTombstoneNoOpInWindow ==
    hist.stage = "done" =>
        \A id \in DupIds :
            (/\ HasTombstoneInWindow(log, id, hist.limit)
             /\ Len(log) + 1 <= Window(hist.limit)
             /\ DeleteIsMostRecent(id)) => SameResults(id)

\* A read has answered with the message of the first line of a log that is one
\* line short of the scanned window and holds a Create and then a Delete of
\* another message.
C20_Witness ==
    /\ hist.stage = "done"
    /\ Len(log) + 1 = Window(hist.limit)
    /\ IsMessage(log[1].line)
    /\ Parse(log[1].line) \in Range(hist.items)
    /\ HasTombstoneInWindow(log, HistMaxMsgs + 1, hist.limit)
    /\ DeleteIsMostRecent(HistMaxMsgs + 1)

\* C21 (the Live Index holds only undeleted created ids): in every reachable
\* state each id in the Live Index was added by a create, its entry's owner is
\* that create's username, and no id whose delete has been acknowledged true
\* is in the Live Index.
C21_LiveIndexOnlyUndeletedCreated ==
    \A id \in IdInputs :
        /\ id \in DOMAIN messages =>
              Created(id) /\ messages[id].owner = PayloadOf(id).username
        /\ ackTrue[id] > 0 => id \notin DOMAIN messages

\* One message has been deleted by its owner and is out of the Live Index,
\* while another, sent before its sender joined, is in it.
C21_Witness ==
    \E id, other \in Ids :
        /\ ackTrue[id] > 0
        /\ id \notin DOMAIN messages
        /\ other \in DOMAIN messages
        /\ messages[other].owner = "Anonymous"
        /\ PayloadOf(other).username = "Anonymous"

\* C22 (the window never resurrects a deleted message): on a log of any length
\* whose records are in issue order, no Create inside the suffix that
\* readRecentMessages scans has its Delete before the suffix, and the read
\* returns no message whose tombstone is anywhere in the log.
InIssueOrder(file) ==
    \A i \in 1..(Len(file) - 1) : file[i].seq < file[i + 1].seq
\* The positions of the lines before the scanned suffix, and of its lines.
BeforeSuffix(limit) == 1..ScanStart(Len(log), limit)
InSuffix(limit) == (ScanStart(Len(log), limit) + 1)..Len(log)
C22_WindowNeverResurrects ==
    (hist.stage = "done" /\ InIssueOrder(log)) =>
        /\ \A j \in BeforeSuffix(hist.limit) : IsTombstone(log[j].line) =>
              \A i \in InSuffix(hist.limit) :
                  ~(IsMessage(log[i].line)
                      /\ Parse(log[i].line).id = Parse(log[j].line).id)
        /\ ItemIds(hist.items) \cap LogTombstoned = {}

\* A read has answered on a log in issue order that is longer than the scanned
\* suffix: a message is deleted before the suffix, and the first line of the
\* suffix is the Create of a message whose Delete follows it.
C22_Witness ==
    /\ hist.stage = "done"
    /\ InIssueOrder(log)
    /\ BeforeSuffix(hist.limit) # {}
    /\ \E j \in BeforeSuffix(hist.limit) : IsTombstone(log[j].line)
    /\ LET first == log[ScanStart(Len(log), hist.limit) + 1].line IN
        /\ IsMessage(first)
        /\ Parse(first).id \in LogTombstoned
        /\ Parse(first).id \notin ItemIds(hist.items)

\* C23 (a socket without a username cannot delete): a delete_message request
\* from a socket that has not joined is acknowledged false, appends no
\* tombstone, leaves the log and the Live Index as they were and broadcasts
\* nothing, also when the message was created under the name "Anonymous".
NotJoined(s) == username[s] = ""
RefusedAtOnce(id) ==
    /\ lastAck' = [id |-> id, me |-> "", ok |-> FALSE]
    /\ lookups' = lookups
    /\ pending' = pending
    /\ log' = log
    /\ messages' = messages
    /\ ackTrue' = ackTrue
    /\ deletedEvents' = deletedEvents
C23_NoUsernameNoDelete ==
    [][\A s \in Sockets, id \in IdInputs :
          (NotJoined(s) /\ DeleteMessage(s, id)) => RefusedAtOnce(id)]_vars

\* Before anyone has joined, a delete_message for a message created under the
\* name "Anonymous" has been refused, and the message is still in the Live
\* Index with no tombstone issued.
C23_Witness ==
    /\ \A s \in Sockets : NotJoined(s)
    /\ HasAck
    /\ ~lastAck.ok
    /\ lastAck.me = ""
    /\ Created(lastAck.id)
    /\ PayloadOf(lastAck.id).username = "Anonymous"
    /\ lastAck.id \in DOMAIN messages
    /\ messages[lastAck.id].owner = "Anonymous"
    /\ \A call \in pending \cup Range(log) : ~IsTombstone(call.line)

====
